---- MODULE Spec2Model ----
(***************************************************************************)
(* Model of the Airweave Notion search tool: the AirweaveClient search     *)
(* gateway (lib/airweave.ts) and the AIService enhancement service          *)
(* (services/ai-service.ts).                                                *)
(*                                                                         *)
(* JavaScript values are tagged records; JavaScript strings are TLA+        *)
(* strings (Len, \o and SubSeq act on them character by character).        *)
(* Numbers are integers or NaN.  A JSON object is the sequence of its       *)
(* <<key, value>> members in document order, as JSON.parse builds it.       *)
(***************************************************************************)
EXTENDS Integers, Sequences, FiniteSets, TLC

(***************************************************************************)
(* Bounds of the model.                                                    *)
(***************************************************************************)
\* longest raw result list of an upstream response body
MaxItems == 3
\* most members of one sampled JSON object
MaxFields == 2

(***************************************************************************)
(* JavaScript values.                                                      *)
(***************************************************************************)
Undef == [t |-> "undefined"]
Null == [t |-> "null"]
NaN == [t |-> "nan"]
Bool(b) == [t |-> "bool", b |-> b]
Num(n) == [t |-> "num", n |-> n]
Str(s) == [t |-> "str", s |-> s]
Arr(e) == [t |-> "arr", e |-> e]
Obj(m) == [t |-> "obj", m |-> m]

\* the set {s[1], ..., s[n]} of a sequence
Range(s) == {s[i] : i \in 1..Len(s)}

\* ToBoolean: what `v || ...` and `!v` test
Truthy(v) ==
  CASE v.t = "undefined" -> FALSE
    [] v.t = "null" -> FALSE
    [] v.t = "nan" -> FALSE
    [] v.t = "bool" -> v.b
    [] v.t = "num" -> v.n # 0
    [] v.t = "str" -> v.s # ""
    [] OTHER -> TRUE

\* a || b
Or(a, b) == IF Truthy(a) THEN a ELSE b

\* own members of an object
HasKey(v, k) == v.t = "obj" /\ \E i \in 1..Len(v.m) : v.m[i][1] = k

\* v.k for a value other than null and undefined: an object's member, and
\* undefined on a primitive or an array (none of the names read is a
\* prototype property)
Get(v, k) ==
  IF HasKey(v, k)
    THEN v.m[CHOOSE i \in 1..Len(v.m) : v.m[i][1] = k][2]
    ELSE Undef

\* v.k raises a TypeError
GetThrows(v) == v.t \in {"null", "undefined"}

RECURSIVE JoinWith(_, _)
\* s.join(sep) of a sequence of strings
JoinWith(s, sep) ==
  IF Len(s) = 0 THEN ""
  ELSE IF Len(s) = 1 THEN s[1]
  ELSE s[1] \o sep \o JoinWith(Tail(s), sep)

RECURSIVE ToPrimitiveThrows(_)
\* String(v) and Number(v) raise a TypeError: an object whose own toString
\* member shadows Object.prototype.toString with a JSON value has no way to
\* a primitive (valueOf returns the object itself); Array.prototype.join
\* converts each element the same way
ToPrimitiveThrows(v) ==
  CASE v.t = "obj" -> HasKey(v, "toString")
    [] v.t = "arr" -> \E i \in 1..Len(v.e) : ToPrimitiveThrows(v.e[i])
    [] OTHER -> FALSE

RECURSIVE ToStr(_)
\* String(v), for a value it does not raise on
ToStr(v) ==
  CASE v.t = "undefined" -> "undefined"
    [] v.t = "null" -> "null"
    [] v.t = "nan" -> "NaN"
    [] v.t = "bool" -> IF v.b THEN "true" ELSE "false"
    [] v.t = "num" -> ToString(v.n)
    [] v.t = "str" -> v.s
    [] v.t = "arr" ->
         JoinWith([i \in 1..Len(v.e) |->
                     IF v.e[i].t \in {"null", "undefined"} THEN ""
                     ELSE ToStr(v.e[i])], ",")
    [] OTHER -> "[object Object]"

\* the numbers a numeric string of the model can denote
NumRange == 0..9

\* StringToNumber: the empty string is 0, a decimal numeral its value, any
\* other text NaN
StringToNumber(s) ==
  IF s = "" THEN Num(0)
  ELSE IF \E n \in NumRange : ToString(n) = s
    THEN Num(CHOOSE n \in NumRange : ToString(n) = s)
  ELSE NaN

\* Number(v), for a value it does not raise on
ToNum(v) ==
  CASE v.t = "undefined" -> NaN
    [] v.t = "null" -> Num(0)
    [] v.t = "nan" -> NaN
    [] v.t = "bool" -> IF v.b THEN Num(1) ELSE Num(0)
    [] v.t = "num" -> v
    [] v.t = "str" -> StringToNumber(v.s)
    [] v.t = "arr" -> StringToNumber(ToStr(v))
    [] OTHER -> NaN

RECURSIVE Stringify(_)
\* JSON.stringify(v) of a value JSON.parse produced
Stringify(v) ==
  CASE v.t = "null" -> "null"
    [] v.t = "bool" -> IF v.b THEN "true" ELSE "false"
    [] v.t = "num" -> ToString(v.n)
    [] v.t = "str" -> "\"" \o v.s \o "\""
    [] v.t = "arr" ->
         "[" \o JoinWith([i \in 1..Len(v.e) |-> Stringify(v.e[i])], ",") \o "]"
    [] v.t = "obj" ->
         "{" \o JoinWith([i \in 1..Len(v.m) |->
                            "\"" \o v.m[i][1] \o "\":" \o Stringify(v.m[i][2])], ",")
             \o "}"
    [] OTHER -> "null"

\* s contains sub
Contains(s, sub) ==
  \E i \in 1..(Len(s) - Len(sub) + 1) : SubSeq(s, i, i + Len(sub) - 1) = sub

(***************************************************************************)
(* AirweaveClient: response normalization (lib/airweave.ts).                *)
(***************************************************************************)
\* appConfig.airweaveApiUrl and appConfig.maxResults, as the environment set them
BaseUrl == "https://api.airweave.ai"
MaxResultsDefault == 10

\* the wrapper fields transformResponse tries, in its order
WrapperKeys == <<"results", "data", "items", "hits", "documents">>

\* rawResults with data tried before results
RawResultsDataFirst(data) ==
  IF data.t = "arr" THEN data.e
  ELSE IF Truthy(data) /\ data.t = "obj" THEN
    IF Get(data, "data").t = "arr" THEN Get(data, "data").e
    ELSE IF Get(data, "results").t = "arr" THEN Get(data, "results").e
    ELSE IF Get(data, "items").t = "arr" THEN Get(data, "items").e
    ELSE IF Get(data, "hits").t = "arr" THEN Get(data, "hits").e
    ELSE IF Get(data, "documents").t = "arr" THEN Get(data, "documents").e
    ELSE <<>>
  ELSE <<>>

\* rawResults of transformResponse: the list the results are mapped from
RawResults(data) ==
  IF data.t = "arr" THEN data.e
  ELSE IF Truthy(data) /\ data.t = "obj" THEN
    IF Get(data, "results").t = "arr" THEN Get(data, "results").e
    ELSE IF Get(data, "data").t = "arr" THEN Get(data, "data").e
    ELSE IF Get(data, "items").t = "arr" THEN Get(data, "items").e
    ELSE IF Get(data, "hits").t = "arr" THEN Get(data, "hits").e
    ELSE IF Get(data, "documents").t = "arr" THEN Get(data, "documents").e
    ELSE <<>>
  ELSE <<>>

\* the argument of String(...) that becomes content
ContentSource(obj) ==
  Or(Or(Or(Or(Or(Or(Or(Get(obj, "content"), Get(obj, "text")), Get(obj, "body")),
    Get(obj, "document")), Get(obj, "page_content")), Get(obj, "chunk")),
    Get(obj, "data")), Str(Stringify(obj)))

\* the id argument with positions counted from one
IdSourceOneBased(obj, index) ==
  Or(Or(Or(Get(obj, "id"), Get(obj, "_id")), Get(obj, "entity_id")), Num(index + 1))

\* the argument of String(...) that becomes id
IdSource(obj, index) ==
  Or(Or(Or(Get(obj, "id"), Get(obj, "_id")), Get(obj, "entity_id")), Num(index))

SourceSource(obj) ==
  Or(Or(Or(Get(obj, "source"), Get(obj, "source_name")), Get(obj, "collection")),
     Str("notion"))

SourceTypeSource(obj) ==
  Or(Or(Get(obj, "source_type"), Get(obj, "type")), Str("notion"))

\* the argument of Number(...) that becomes score
ScoreSource(obj) ==
  Or(Or(Or(Or(Get(obj, "score"), Get(obj, "relevance_score")), Get(obj, "_score")),
    Get(obj, "similarity")), Num(1))

\* the callback of rawResults.map raises on this element
MapItemThrows(item, index) ==
  \/ GetThrows(item)
  \/ ToPrimitiveThrows(ContentSource(item))
  \/ ToPrimitiveThrows(IdSource(item, index))
  \/ ToPrimitiveThrows(SourceSource(item))
  \/ ToPrimitiveThrows(SourceTypeSource(item))
  \/ ToPrimitiveThrows(ScoreSource(item))

\* the message of the TypeError it raises
MapItemError(item) ==
  IF GetThrows(item)
    THEN "Cannot read properties of " \o ToStr(item) \o " (reading 'content')"
    ELSE "Cannot convert object to primitive value"

\* the SearchResult the callback of rawResults.map returns
MapItem(obj, index) ==
  [id |-> ToStr(IdSource(obj, index)),
   content |-> ToStr(ContentSource(obj)),
   source |-> ToStr(SourceSource(obj)),
   sourceType |-> ToStr(SourceTypeSource(obj)),
   score |-> ToNum(ScoreSource(obj)),
   metadata |-> Get(obj, "metadata"),
   url |-> Get(obj, "url"),
   title |-> Or(Get(obj, "title"), Get(obj, "name")),
   createdAt |-> Or(Get(obj, "created_at"), Get(obj, "createdAt")),
   updatedAt |-> Or(Get(obj, "updated_at"), Get(obj, "updatedAt"))]

\* transformResponse(data): { results }, or the error the first bad element raises
transformResponse(data) ==
  LET raw == RawResults(data)
      bad == {i \in 1..Len(raw) : MapItemThrows(raw[i], i - 1)}
  IN IF bad # {}
       THEN [threw |-> TRUE,
             error |-> MapItemError(raw[CHOOSE i \in bad : \A j \in bad : i <= j])]
       ELSE [threw |-> FALSE,
             results |-> [i \in 1..Len(raw) |-> MapItem(raw[i], i - 1)]]

(***************************************************************************)
(* Inputs: upstream response bodies, HTTP outcomes, search options.         *)
(***************************************************************************)
\* member names of the sampled raw records: content, id and score fields of
\* transformResponse, and one name it does not know
SampleKeys == <<"content", "text", "data", "id", "entity_id", "score", "similarity", "note">>

\* member values of the sampled raw records
Atoms == {Null, Num(0), Num(1), Str(""), Str("hi"), Arr(<<>>),
          Obj(<<<<"toString", Num(1)>>>>)}

RECURSIVE Members(_, _)
\* member lists over SampleKeys[from..], in that order, of at most n members
Members(from, n) ==
  IF n = 0 \/ from > Len(SampleKeys) THEN {<<>>}
  ELSE Members(from + 1, n)
       \cup {<<<<SampleKeys[from], a>>>> \o rest :
               a \in Atoms, rest \in Members(from + 1, n - 1)}

\* raw elements that are no record at all
Primitives == {Null, Num(5), Str("hi"), Arr(<<>>)}

\* raw elements with at most one member
SimpleElements == Primitives \cup {Obj(m) : m \in Members(1, 1)}

\* raw records with up to MaxFields members
RichElements == {Obj(m) : m \in Members(1, MaxFields)}

RECURSIVE ListsOf(_, _)
\* the sequences over S of at most n elements
ListsOf(S, n) ==
  IF n = 0 THEN {<<>>}
  ELSE LET shorter == ListsOf(S, n - 1)
       IN shorter \cup {Append(l, e) : l \in shorter, e \in S}

\* raw records that fill the other places of a list
Fillers == {Obj(<<>>), Obj(<<<<"id", Str("a")>>>>)}

\* the list f with e put in after its first p elements
InsertAt(f, p, e) == SubSeq(f, 1, p) \o <<e>> \o SubSeq(f, p + 1, Len(f))

\* bare-array bodies: the empty list, the lists of up to MaxItems elements
\* with one simple element at any place among fillers, and the lists of one
\* rich record
ArrayBodies ==
  {Arr(<<>>)}
    \cup UNION {{Arr(InsertAt(f, p, e)) : p \in 0..Len(f), e \in SimpleElements} :
                  f \in ListsOf(Fillers, MaxItems - 1)}
    \cup {Arr(<<e>>) : e \in RichElements}

\* names and values of the members of the sampled wrapper objects
EnvelopeKeys == <<"results", "data", "items", "hits", "documents", "total">>
EnvelopeValues ==
  {Arr(<<>>), Arr(<<Obj(<<<<"id", Str("a")>>>>)>>), Arr(<<Str("b"), Obj(<<>>)>>),
   Str("x"), Null, Num(3), Obj(<<>>)}

RECURSIVE Envelopes(_, _)
Envelopes(from, n) ==
  IF n = 0 \/ from > Len(EnvelopeKeys) THEN {<<>>}
  ELSE Envelopes(from + 1, n)
       \cup {<<<<EnvelopeKeys[from], a>>>> \o rest :
               a \in EnvelopeValues, rest \in Envelopes(from + 1, n - 1)}

\* object bodies
ObjectBodies == {Obj(m) : m \in Envelopes(1, MaxFields)}

\* the JSON values an upstream body parses to
Bodies == ArrayBodies \cup ObjectBodies \cup {Null, Num(5), Str("hi"), Bool(TRUE)}

\* what the outbound request comes to.  fetch() rejects; or a response with a
\* status arrives and its body (response.text() on an error status,
\* response.json() otherwise) cannot be read, is no JSON text, or is the JSON
\* text of a value
FetchRejected(msg) == [kind |-> "rejected", message |-> msg]
BodyUnreadable(status, msg) == [kind |-> "unreadable", status |-> status, message |-> msg]
BodyMalformed(status, text) == [kind |-> "malformed", status |-> status, text |-> text]
BodyJson(status, v) == [kind |-> "json", status |-> status, data |-> v]

OkStatuses == {200}
ErrorStatuses == {404, 500}

Outcomes ==
  {FetchRejected("fetch failed")}
    \cup {BodyUnreadable(st, "terminated") : st \in OkStatuses \cup ErrorStatuses}
    \cup {BodyMalformed(st, tx) : st \in OkStatuses \cup ErrorStatuses,
                                  tx \in {"", "Internal Server Error"}}
    \cup {BodyJson(st, v) : st \in ErrorStatuses,
                            v \in {Obj(<<<<"detail", Str("nope")>>>>), Arr(<<>>)}}
    \cup {BodyJson(st, v) : st \in OkStatuses, v \in Bodies}

\* SearchOptions of the calls
OptionsSet ==
  {[query |-> "notes", searchType |-> Undef, limit |-> Undef],
   [query |-> "roadmap", searchType |-> Str("keyword"), limit |-> Num(3)]}

\* values given to the constructor and the setters
KeyValues == {"", "key-1"}
CollectionValues == {"", "col-1"}

\* no value: nothing requested, received or returned (yet)
None == [t |-> "none"]

(***************************************************************************)
(* AirweaveClient: state and search (lib/airweave.ts).                      *)
(***************************************************************************)
VARIABLES
  apiKey,        \* AirweaveClient.apiKey
  collectionId,  \* AirweaveClient.collectionId
  pc,            \* where the caller of search is: "idle", "fetch", "returned"
  options,       \* the SearchOptions of the call
  request,       \* the request the call handed to fetch
  netCalls,      \* the requests the call has issued
  outcome,       \* what its request came to
  response,      \* the SearchResponse it returned
  raised         \* the call ended by raising instead

clientVars == <<apiKey, collectionId, pc, options, request, netCalls, outcome,
                response, raised>>

VARIABLES
  provider,         \* AIService.provider (appConfig.llmProvider)
  googleApiKey,     \* appConfig.googleApiKey
  openaiApiKey,     \* appConfig.openaiApiKey
  anthropicApiKey,  \* appConfig.anthropicApiKey
  aiPc,             \* where the caller of the service is: "idle", "generate", "returned"
  aiOp,             \* the method called
  aiQuery,          \* its query argument
  aiResults,        \* its results argument
  modelCall,        \* the generateText call it made
  modelCalls,       \* the generateText calls it has made
  reply,            \* what generateText came to
  aiReturn,         \* the value the method returned
  aiRaised          \* the method ended by raising instead

aiVars == <<provider, googleApiKey, openaiApiKey, anthropicApiKey, aiPc, aiOp,
            aiQuery, aiResults, modelCall, modelCalls, reply, aiReturn, aiRaised>>

VARIABLES
  plPc,           \* where enhancedSearch is: "idle", "enhance", "search", "rerank",
                  \* "summarize", "returned", "raised"
  plQuery,        \* its query argument
  plEnhancement,  \* its const enhancement
  plFound,        \* what searchFn resolved with
  plResults,      \* its let results
  plReturn,       \* the record it returned
  plError,        \* the error it was rejected with
  searchFnCalls,  \* the arguments searchFn was called with
  plModelCalls,   \* the generateText calls made for it
  plAllFailed,    \* none of them returned a text
  plLog           \* its stages, as they start and complete

plVars == <<plPc, plQuery, plEnhancement, plFound, plResults, plReturn, plError,
            searchFnCalls, plModelCalls, plAllFailed, plLog>>

VARIABLES
  running,          \* AirweaveCLI.running
  cliPc,            \* where start is: "prompt", "search", "summarize", "collections",
                    \* "ended"
  cliLine,          \* the input that is handled, or was handled last
  searchType,       \* state.searchType
  outputFormat,     \* state.outputFormat
  enhanceQueries,   \* state.enhanceQueries
  lastQuery,        \* state.lastQuery
  lastResults,      \* state.lastResults
  cfgApiKey,        \* appConfig.airweaveApiKey
  cfgCollectionId,  \* appConfig.airweaveCollectionId
  cliResponse,      \* const response of performSearch
  savedFile,        \* the arguments of saveResultsToFile for this input
  listRequest,      \* the request of listCollections for this input
  cliLog            \* what handling this input has come to so far

cliVars == <<running, cliPc, cliLine, searchType, outputFormat, enhanceQueries,
             lastQuery, lastResults, cfgApiKey, cfgCollectionId, cliResponse,
             savedFile, listRequest, cliLog>>

vars == <<clientVars, aiVars, plVars, cliVars>>

\* the variables outside the search gateway, outside the AI service, outside
\* enhancedSearch and its model calls, and outside the CLI and what it calls
otherThanClient == <<aiVars, plVars, cliVars>>
otherThanAI == <<clientVars, plVars, cliVars>>
otherThanPipeline == <<clientVars, cliVars>>
otherThanCLI == <<plVars>>

\* isConfigured with || in the place of &&
Client_isConfiguredEither == Truthy(Str(apiKey)) \/ Truthy(Str(collectionId))

\* AirweaveClient.isConfigured
Client_isConfigured == Truthy(Str(apiKey)) /\ Truthy(Str(collectionId))

\* response.ok
ResponseOk(status) == status \in 200..299

\* the request makeSearchRequest hands to fetch
SearchRequest(o) ==
  [method |-> "POST",
   url |-> BaseUrl \o "/collections/" \o collectionId \o "/search",
   xApiKey |-> apiKey,
   body |-> [query |-> o.query,
             search_type |-> Or(o.searchType, Str("hybrid")),
             limit |-> Or(o.limit, Num(MaxResultsDefault))]]

\* makeSearchRequest with an error message that leaves the status out
makeSearchRequestNoStatus(out) ==
  CASE out.kind = "rejected" -> [threw |-> TRUE, error |-> out.message]
    [] out.kind = "unreadable" -> [threw |-> TRUE, error |-> out.message]
    [] out.kind = "malformed" ->
         IF ~ResponseOk(out.status)
           THEN [threw |-> TRUE, error |-> "Airweave API error: " \o out.text]
           ELSE [threw |-> TRUE, error |-> "Unexpected end of JSON input"]
    [] out.kind = "json" ->
         IF ~ResponseOk(out.status)
           THEN [threw |-> TRUE, error |-> "Airweave API error: " \o Stringify(out.data)]
           ELSE transformResponse(out.data)

\* makeSearchRequest from the settling of fetch on: { results }, or the error
\* it raises
makeSearchRequest(out) ==
  CASE out.kind = "rejected" -> [threw |-> TRUE, error |-> out.message]
    [] out.kind = "unreadable" -> [threw |-> TRUE, error |-> out.message]
    [] out.kind = "malformed" ->
         IF ~ResponseOk(out.status)
           THEN [threw |-> TRUE,
                 error |-> "Airweave API error (" \o ToString(out.status) \o "): "
                             \o out.text]
           ELSE [threw |-> TRUE, error |-> "Unexpected end of JSON input"]
    [] out.kind = "json" ->
         IF ~ResponseOk(out.status)
           THEN [threw |-> TRUE,
                 error |-> "Airweave API error (" \o ToString(out.status) \o "): "
                             \o Stringify(out.data)]
           ELSE transformResponse(out.data)

\* the response search returns when the client is not configured
NotConfiguredResponse(o) ==
  [success |-> FALSE,
   query |-> o.query,
   searchType |-> Or(o.searchType, Str("hybrid")),
   results |-> <<>>,
   totalResults |-> 0,
   error |-> Str("Airweave client not configured. Please set API key and collection ID.")]

\* the errors of makeSearchRequest that get past search: its catch clause
\* takes every error
Uncaught(r) == FALSE

\* try { ... } catch of search: what search returns, given what
\* makeSearchRequest came to
SearchResult(o, r) ==
  IF r.threw
    THEN [success |-> FALSE,
          query |-> o.query,
          searchType |-> Or(o.searchType, Str("hybrid")),
          results |-> <<>>,
          totalResults |-> 0,
          error |-> Str(r.error)]
    ELSE [success |-> TRUE,
          query |-> o.query,
          searchType |-> Or(o.searchType, Str("hybrid")),
          results |-> r.results,
          totalResults |-> Len(r.results),
          error |-> Undef]

\* the client as constructed, with its key among K and its collection among C
ClientInit(K, C) ==
  /\ apiKey \in K
  /\ collectionId \in C
  /\ pc = "idle"
  /\ options = None
  /\ request = None
  /\ netCalls = 0
  /\ outcome = None
  /\ response = None
  /\ raised = FALSE

\* setApiKey that keeps the key it has
setApiKeyIgnored(v) ==
  /\ pc = "idle"
  /\ UNCHANGED <<apiKey, collectionId, pc, options, request, netCalls, outcome, response,
                 raised>>

\* setApiKey
setApiKey(v) ==
  /\ pc = "idle"
  /\ apiKey' = v
  /\ UNCHANGED <<collectionId, pc, options, request, netCalls, outcome, response, raised>>

\* setCollectionId
setCollectionId(v) ==
  /\ pc = "idle"
  /\ collectionId' = v
  /\ UNCHANGED <<apiKey, pc, options, request, netCalls, outcome, response, raised>>

\* search, up to its return when not configured and up to await fetch otherwise
search(o) ==
  /\ pc = "idle"
  /\ options' = o
  /\ IF ~Client_isConfigured
       THEN /\ response' = NotConfiguredResponse(o)
            /\ pc' = "returned"
            /\ UNCHANGED <<request, netCalls>>
       ELSE /\ request' = SearchRequest(o)
            /\ netCalls' = netCalls + 1
            /\ pc' = "fetch"
            /\ UNCHANGED response
  /\ UNCHANGED <<apiKey, collectionId, outcome, raised>>

\* search, from the settling of fetch to its return
searchSettles(out) ==
  /\ pc = "fetch"
  /\ outcome' = out
  /\ LET r == makeSearchRequest(out)
     IN IF Uncaught(r)
          THEN raised' = TRUE /\ UNCHANGED response
          ELSE response' = SearchResult(options, r) /\ UNCHANGED raised
  /\ pc' = "returned"
  /\ UNCHANGED <<apiKey, collectionId, options, request, netCalls>>

\* the caller takes the response; the next call starts afresh
searchDone ==
  /\ pc = "returned"
  /\ pc' = "idle"
  /\ options' = None
  /\ request' = None
  /\ netCalls' = 0
  /\ outcome' = None
  /\ response' = None
  /\ raised' = FALSE
  /\ UNCHANGED <<apiKey, collectionId>>

\* the client used on its own: the rest of the program is at rest
ClientNext ==
  \/ (\E v \in KeyValues : setApiKey(v)) /\ UNCHANGED otherThanClient
  \/ (\E v \in CollectionValues : setCollectionId(v)) /\ UNCHANGED otherThanClient
  \/ (\E o \in OptionsSet : search(o)) /\ UNCHANGED otherThanClient
  \/ pc = "fetch" /\ (\E out \in Outcomes : searchSettles(out)) /\ UNCHANGED otherThanClient
  \/ searchDone /\ UNCHANGED otherThanClient

(***************************************************************************)
(* AIService (services/ai-service.ts): text of the model replies.           *)
(***************************************************************************)
\* longest result list handed to the AI service
MaxResults == 3
\* most indices in a sampled re-ranking reply
MaxReply == 3

CharAt(s, i) == SubSeq(s, i, i)
IsDigit(c) == c \in {"0", "1", "2", "3", "4", "5", "6", "7", "8", "9"}
\* white space of trim and of \s in a regular expression
IsSpace(c) == c \in {" ", "\t", "\n", "\r", "\f"}
\* white space of JSON text
IsJsonSpace(c) == c \in {" ", "\t", "\n", "\r"}

RECURSIVE TrimLeft(_)
TrimLeft(s) ==
  IF Len(s) > 0 /\ IsSpace(CharAt(s, 1)) THEN TrimLeft(SubSeq(s, 2, Len(s))) ELSE s

RECURSIVE TrimRight(_)
TrimRight(s) ==
  IF Len(s) > 0 /\ IsSpace(CharAt(s, Len(s)))
    THEN TrimRight(SubSeq(s, 1, Len(s) - 1)) ELSE s

\* String.prototype.trim
Trim(s) == TrimRight(TrimLeft(s))

\* the end of the longest run of [\d\s,] characters of s that starts at i
RECURSIVE RunEnd(_, _)
RunEnd(s, i) ==
  IF i <= Len(s) /\ (IsDigit(CharAt(s, i)) \/ IsSpace(CharAt(s, i)) \/ CharAt(s, i) = ",")
    THEN RunEnd(s, i + 1) ELSE i

\* responseText.match(/\[[\d\s,]+\]/): the leftmost "[", run of one or more
\* [\d\s,] characters, "]"
ArrayMatch(s) ==
  LET starts == {i \in 1..Len(s) :
                   /\ CharAt(s, i) = "["
                   /\ RunEnd(s, i + 1) > i + 1
                   /\ RunEnd(s, i + 1) <= Len(s)
                   /\ CharAt(s, RunEnd(s, i + 1)) = "]"}
  IN IF starts = {} THEN [found |-> FALSE]
     ELSE LET i == CHOOSE a \in starts : \A b \in starts : a <= b
          IN [found |-> TRUE, text |-> SubSeq(s, i, RunEnd(s, i + 1))]

\* the pieces of s between its commas
RECURSIVE SplitCommas(_)
SplitCommas(s) ==
  LET commas == {i \in 1..Len(s) : CharAt(s, i) = ","}
  IN IF commas = {} THEN <<s>>
     ELSE LET i == CHOOSE a \in commas : \A b \in commas : a <= b
          IN <<SubSeq(s, 1, i - 1)>> \o SplitCommas(SubSeq(s, i + 1, Len(s)))

\* a JSON number made of digits: "0", or digits with no leading zero
IsJsonInteger(s) ==
  /\ Len(s) > 0
  /\ \A i \in 1..Len(s) : IsDigit(CharAt(s, i))
  /\ Len(s) > 1 => CharAt(s, 1) # "0"

RECURSIVE DecimalValue(_)
DecimalValue(s) ==
  IF Len(s) = 0 THEN 0
  ELSE 10 * DecimalValue(SubSeq(s, 1, Len(s) - 1))
         + (CHOOSE d \in 0..9 : ToString(d) = CharAt(s, Len(s)))

\* JSON.parse of a text the array pattern matched raises a SyntaxError
JsonArrayThrows(m) ==
  LET body == SubSeq(m, 2, Len(m) - 1)
      parts == SplitCommas(body)
  IN \/ \E i \in 1..Len(body) : IsSpace(CharAt(body, i)) /\ ~IsJsonSpace(CharAt(body, i))
     \/ Trim(body) # "" /\ \E i \in 1..Len(parts) : ~IsJsonInteger(Trim(parts[i]))

\* JSON.parse of such a text: its list of numbers
JsonArray(m) ==
  LET body == SubSeq(m, 2, Len(m) - 1)
      parts == SplitCommas(body)
  IN IF Trim(body) = "" THEN <<>>
     ELSE [i \in 1..Len(parts) |-> DecimalValue(Trim(parts[i]))]

\* The text of a reply that should hold a JSON object is the sequence of its
\* lexical tokens: braces, commas, members "key": value, and other text.
LBrace == [tok |-> "{"]
RBrace == [tok |-> "}"]
Comma == [tok |-> ","]
Junk == [tok |-> "text"]
Member(k, v) == [tok |-> "member", k |-> k, v |-> v]

\* responseText.match(/\{[\s\S]*\}/): from the first "{" to the last "}"
ObjectMatch(toks) ==
  LET opens == {i \in 1..Len(toks) : toks[i] = LBrace}
      closes == {i \in 1..Len(toks) : toks[i] = RBrace}
  IN IF opens = {} THEN [found |-> FALSE]
     ELSE LET i == CHOOSE a \in opens : \A b \in opens : a <= b
          IN IF \E j \in closes : j > i
               THEN [found |-> TRUE,
                     text |-> SubSeq(toks, i, CHOOSE j \in closes : \A b \in closes : b <= j)]
               ELSE [found |-> FALSE]

\* JSON.parse of a text the object pattern matched raises a SyntaxError: what
\* is between the braces is not members with commas between them
JsonObjectThrows(m) ==
  LET inner == SubSeq(m, 2, Len(m) - 1)
  IN \/ Len(inner) > 0 /\ Len(inner) % 2 = 0
     \/ \E i \in 1..Len(inner) :
          IF i % 2 = 1 THEN inner[i].tok # "member" ELSE inner[i] # Comma

\* JSON.parse of such a text: a name has the place of its first member and the
\* value of its last
JsonObject(m) ==
  LET inner == SubSeq(m, 2, Len(m) - 1)
      odd == {i \in 1..Len(inner) : i % 2 = 1}
      firsts == {i \in odd : \A j \in odd : j < i => inner[j].k # inner[i].k}
      LastOf(k) == CHOOSE i \in odd :
                     inner[i].k = k /\ \A j \in odd : inner[j].k = k => j <= i
      RECURSIVE Pick(_)
      Pick(S) == IF S = {} THEN <<>>
                 ELSE LET i == CHOOSE a \in S : \A b \in S : a <= b
                      IN <<<<inner[i].k, inner[LastOf(inner[i].k)].v>>>> \o Pick(S \ {i})
  IN Obj(Pick(firsts))

(***************************************************************************)
(* AIService: state, reRankResults and enhanceQuery.                        *)
(***************************************************************************)
\* AIService.getModelName
getModelName ==
  CASE provider = "google" -> "gemini-2.5-flash-preview"
    [] provider = "openai" -> "gpt-4-turbo-preview"
    [] provider = "anthropic" -> "claude-3-haiku-20240307"
    [] OTHER -> "gemini-1.5-flash"

\* AIService.getModel: the binding and the model of the calls
getModel ==
  CASE provider = "google" -> [binding |-> "google", model |-> getModelName]
    [] OTHER -> [binding |-> "google", model |-> getModelName]

\* AIService.isConfigured
AI_isConfigured ==
  IF provider = "google" THEN Truthy(googleApiKey)
  ELSE IF provider = "openai" THEN Truthy(openaiApiKey)
  ELSE IF provider = "anthropic" THEN Truthy(anthropicApiKey)
  ELSE FALSE

\* the credential a binding reads when it is called
BindingKey(binding) ==
  CASE binding = "google" -> googleApiKey
    [] binding = "openai" -> openaiApiKey
    [] binding = "anthropic" -> anthropicApiKey

\* what generateText comes to: it raises, or returns a text
CallFailed(msg) == [kind |-> "failed", message |-> msg]
CallText(text) == [kind |-> "text", text |-> text]

\* the valid indices of reRankResults
ValidIndices(indices, n) ==
  LET keep == {k \in 1..Len(indices) : indices[k] >= 0 /\ indices[k] < n}
      RECURSIVE Pick(_)
      Pick(S) == IF S = {} THEN <<>>
                 ELSE LET k == CHOOSE a \in S : \A b \in S : a <= b
                      IN <<indices[k]>> \o Pick(S \ {k})
  IN Pick(keep)

\* Reordered that stops after the indices the reply names
ReorderedNoRest(results, valid) ==
  LET RECURSIVE Loop(_, _, _)
      Loop(k, reordered, used) ==
        IF k > Len(valid) THEN reordered
        ELSE IF valid[k] \in used THEN Loop(k + 1, reordered, used)
        ELSE Loop(k + 1, Append(reordered, results[valid[k] + 1]), used \cup {valid[k]})
  IN Loop(1, <<>>, {})

\* Reordered that keeps an index named twice at its last place
ReorderedLastWins(results, valid) ==
  LET lasts == {k \in 1..Len(valid) : \A j \in (k + 1)..Len(valid) : valid[j] # valid[k]}
      used == {valid[k] : k \in 1..Len(valid)}
      RECURSIVE Named(_)
      Named(S) == IF S = {} THEN <<>>
                  ELSE LET k == CHOOSE a \in S : \A b \in S : a <= b
                       IN <<results[valid[k] + 1]>> \o Named(S \ {k})
      RECURSIVE Rest(_)
      Rest(i) == IF i >= Len(results) THEN <<>>
                 ELSE IF i \in used THEN Rest(i + 1)
                 ELSE <<results[i + 1]>> \o Rest(i + 1)
  IN Named(lasts) \o Rest(0)

\* the two loops of reRankResults: the results at the valid indices, each
\* index once, then the results no index named
Reordered(results, valid) ==
  LET RECURSIVE First(_, _, _)
      First(k, reordered, used) ==
        IF k > Len(valid) THEN [reordered |-> reordered, used |-> used]
        ELSE IF valid[k] \in used THEN First(k + 1, reordered, used)
        ELSE First(k + 1, Append(reordered, results[valid[k] + 1]), used \cup {valid[k]})
      RECURSIVE Second(_, _, _)
      Second(i, reordered, used) ==
        IF i >= Len(results) THEN reordered
        ELSE IF i \in used THEN Second(i + 1, reordered, used)
        ELSE Second(i + 1, Append(reordered, results[i + 1]), used)
      a == First(1, <<>>, {})
  IN Second(0, a.reordered, a.used)

\* reRankResults from the settling of generateText on: what it returns
reRankResultsReturn(results, rep) ==
  IF rep.kind = "failed" THEN results
  ELSE LET arrayMatch == ArrayMatch(Trim(rep.text))
       IN IF ~arrayMatch.found THEN results
          ELSE IF JsonArrayThrows(arrayMatch.text) THEN results
          ELSE LET validIndices == ValidIndices(JsonArray(arrayMatch.text), Len(results))
               IN IF Len(validIndices) = 0 THEN results
                  ELSE Reordered(results, validIndices)

\* the enhancement of a service not configured, with the query left out
UnconfiguredEnhancementBlank(userQuery) ==
  [originalQuery |-> userQuery,
   enhancedQuery |-> Str(""),
   keywords |-> Arr(<<>>),
   intent |-> Str("search")]

\* the enhancement enhanceQuery returns when the service is not configured
UnconfiguredEnhancement(userQuery) ==
  [originalQuery |-> userQuery,
   enhancedQuery |-> Str(userQuery),
   keywords |-> Arr(<<>>),
   intent |-> Str("search")]

\* the catch of enhanceQuery with an empty enhanced query
FailedEnhancementEmpty(userQuery) ==
  [originalQuery |-> userQuery,
   enhancedQuery |-> Str(""),
   keywords |-> Arr(<<>>),
   intent |-> Str("search")]

\* the enhancement the catch of enhanceQuery returns
FailedEnhancement(userQuery) ==
  [originalQuery |-> userQuery,
   enhancedQuery |-> Str(userQuery),
   keywords |-> Arr(<<>>),
   intent |-> Str("search")]

\* enhanceQuery from the settling of generateText on: what it returns
enhanceQueryReturn(userQuery, rep) ==
  IF rep.kind = "failed" THEN FailedEnhancement(userQuery)
  ELSE LET jsonMatch == ObjectMatch(rep.text)
       IN IF ~jsonMatch.found THEN FailedEnhancement(userQuery)
          ELSE IF JsonObjectThrows(jsonMatch.text) THEN FailedEnhancement(userQuery)
          ELSE LET parsed == JsonObject(jsonMatch.text)
               IN [originalQuery |-> userQuery,
                   enhancedQuery |-> Or(Get(parsed, "enhanced_query"), Str(userQuery)),
                   keywords |-> Or(Get(parsed, "keywords"), Arr(<<>>)),
                   intent |-> Or(Get(parsed, "intent"), Str("search"))]

\* the test of summarizeResults without the test of the result list
SummarizeSkipsWhenUnconfigured(results) == ~AI_isConfigured

\* the test of summarizeResults that returns before any model call
SummarizeSkips(results) == ~AI_isConfigured \/ Len(results) = 0

\* the summary summarizeResults returns when it calls no model
NoResultsSummary ==
  [summary |-> Str("No results to summarize."),
   keyPoints |-> Arr(<<>>),
   relevantTopics |-> Arr(<<>>)]

\* the summary the catch of summarizeResults returns
FailedSummary ==
  [summary |-> Str("Failed to generate summary."),
   keyPoints |-> Arr(<<>>),
   relevantTopics |-> Arr(<<>>)]

\* summarizeResults from the settling of generateText on: what it returns
summarizeResultsReturn(results, rep) ==
  IF rep.kind = "failed" THEN FailedSummary
  ELSE LET jsonMatch == ObjectMatch(rep.text)
       IN IF ~jsonMatch.found THEN FailedSummary
          ELSE IF JsonObjectThrows(jsonMatch.text) THEN FailedSummary
          ELSE LET parsed == JsonObject(jsonMatch.text)
               IN [summary |-> Or(Get(parsed, "summary"), Str("Unable to generate summary.")),
                   keyPoints |-> Or(Get(parsed, "key_points"), Arr(<<>>)),
                   relevantTopics |-> Or(Get(parsed, "relevant_topics"), Arr(<<>>))]

\* the i-th result of a sampled result list, as search produces it
Doc(i) ==
  MapItem(Obj(<<<<"text", Str("doc " \o ToString(i))>>, <<"score", Num(i + 1)>>>>), i)

\* result lists handed to the service: every length up to MaxResults, and the
\* lists whose last result repeats the first
ResultLists ==
  {[i \in 1..n |-> Doc(i - 1)] : n \in 0..MaxResults}
    \cup {[i \in 1..n |-> IF i = n THEN Doc(0) ELSE Doc(i - 1)] : n \in 2..MaxResults}

Queries == {"notes", "roadmap"}

\* index lists of the sampled re-ranking replies; MaxResults is out of range
\* for every result list
IndexLists == ListsOf(0..MaxResults, MaxReply)

\* the numerals of an index list with sep between them
Numerals(l, sep) == JoinWith([i \in 1..Len(l) |-> ToString(l[i])], sep)

\* texts of re-ranking replies: an index list written compactly, inside a
\* sentence, and spread out
RankTexts ==
  UNION {{"[" \o Numerals(l, ",") \o "]",
          "Ranking: [" \o Numerals(l, ", ") \o "] is best",
          " [ " \o Numerals(l, " , ") \o " ]\n"} : l \in IndexLists}

\* texts with no index list, with one JSON.parse rejects, and with several
\* bracketed parts
OddTexts ==
  {"", "I cannot rank these.", "[ ]", "[1,,0]", "[1 0]", "[01, 0]", "[1, 0,]", "1, 0",
   "[1,\f0]",
   "[12, 1, 0]", "[a] [1,0]", "[1,0] [0,1]", "[-1, 0]", "[1.5, 0]", "[[1,0]]", "[1,0"}

RankReplies ==
  {CallFailed("model call failed")} \cup {CallText(t) : t \in RankTexts \cup OddTexts}

\* members of the sampled query-enhancement replies
EnhanceMembers ==
  {Member("original_query", Str("notes")),
   Member("enhanced_query", Str("notes weekly agenda")),
   Member("enhanced_query", Str("")),
   Member("keywords", Arr(<<Str("notes"), Str("agenda")>>)),
   Member("intent", Str("find notes"))}

\* the members ml with commas between them
RECURSIVE WithCommas(_)
WithCommas(ml) ==
  IF Len(ml) <= 1 THEN ml ELSE <<ml[1], Comma>> \o WithCommas(Tail(ml))

\* token texts of replies: an object of up to MaxFields members alone, inside
\* other text, followed by a second object, left open, with a comma missing
\* or left over; and texts with no object
ObjectTexts(members) ==
  UNION {{<<LBrace>> \o WithCommas(ml) \o <<RBrace>>,
          <<Junk, LBrace>> \o WithCommas(ml) \o <<RBrace, Junk>>,
          <<LBrace>> \o WithCommas(ml) \o <<RBrace, Junk, LBrace, RBrace>>,
          <<LBrace>> \o WithCommas(ml),
          <<LBrace>> \o ml \o <<RBrace>>,
          <<LBrace>> \o WithCommas(ml) \o <<Comma, RBrace>>} :
           ml \in ListsOf(members, MaxFields)}
    \cup {<<>>, <<Junk>>, <<RBrace, LBrace>>}

EnhanceReplies ==
  {CallFailed("model call failed")} \cup {CallText(t) : t \in ObjectTexts(EnhanceMembers)}

\* members of the sampled summary replies
SummaryMembers ==
  {Member("summary", Str("Two notes cover the agenda.")),
   Member("summary", Str("")),
   Member("key_points", Arr(<<Str("agenda")>>)),
   Member("relevant_topics", Arr(<<Str("meetings")>>))}

SummaryReplies ==
  {CallFailed("model call failed")} \cup {CallText(t) : t \in ObjectTexts(SummaryMembers)}

\* a call through a binding whose credential is missing raises
NoKeyReplies == {CallFailed("API key is missing")}

\* what a generateText call can come to
Replies(call, all) == IF Truthy(BindingKey(call.binding)) THEN all ELSE NoKeyReplies

\* provider and credentials of the sampled configurations: each provider with
\* its own credential alone, with every credential but its own, and with all
AIConfigs ==
  {<<"google", Str("g-key"), Undef, Undef>>,
   <<"google", Undef, Str("o-key"), Str("a-key")>>,
   <<"openai", Undef, Str("o-key"), Undef>>,
   <<"openai", Str("g-key"), Str(""), Str("a-key")>>,
   <<"anthropic", Str("g-key"), Str("o-key"), Str("a-key")>>,
   <<"anthropic", Str("g-key"), Str("o-key"), Undef>>}

\* the service as constructed, under one of the configurations
AIInit(configs) ==
  /\ \E c \in configs :
       /\ provider = c[1]
       /\ googleApiKey = c[2]
       /\ openaiApiKey = c[3]
       /\ anthropicApiKey = c[4]
  /\ aiPc = "idle"
  /\ aiOp = "none"
  /\ aiQuery = ""
  /\ aiResults = <<>>
  /\ modelCall = None
  /\ modelCalls = 0
  /\ reply = None
  /\ aiReturn = None
  /\ aiRaised = FALSE

aiConfig == <<provider, googleApiKey, openaiApiKey, anthropicApiKey>>

\* the generateText call of a method
GenerateText(purpose, query) ==
  [binding |-> getModel.binding, model |-> getModel.model,
   purpose |-> purpose, query |-> query]

\* enhanceQuery, up to its return when not configured and up to await
\* generateText otherwise
enhanceQuery(userQuery) ==
  /\ aiPc = "idle"
  /\ aiOp' = "enhanceQuery"
  /\ aiQuery' = userQuery
  /\ IF ~AI_isConfigured
       THEN /\ aiReturn' = UnconfiguredEnhancement(userQuery)
            /\ aiPc' = "returned"
            /\ UNCHANGED <<modelCall, modelCalls>>
       ELSE /\ modelCall' = GenerateText("enhance", userQuery)
            /\ modelCalls' = modelCalls + 1
            /\ aiPc' = "generate"
            /\ UNCHANGED aiReturn
  /\ UNCHANGED <<aiConfig, aiResults, reply, aiRaised>>

\* enhanceQuery, from the settling of generateText to its return
enhanceQuerySettles(rep) ==
  /\ aiPc = "generate"
  /\ aiOp = "enhanceQuery"
  /\ reply' = rep
  /\ aiReturn' = enhanceQueryReturn(aiQuery, rep)
  /\ aiPc' = "returned"
  /\ UNCHANGED <<aiConfig, aiOp, aiQuery, aiResults, modelCall, modelCalls, aiRaised>>

\* reRankResults, up to its return when there is nothing to do and up to
\* await generateText otherwise
reRankResults(results, query) ==
  /\ aiPc = "idle"
  /\ aiOp' = "reRankResults"
  /\ aiQuery' = query
  /\ aiResults' = results
  /\ IF ~AI_isConfigured \/ Len(results) <= 1
       THEN /\ aiReturn' = results
            /\ aiPc' = "returned"
            /\ UNCHANGED <<modelCall, modelCalls>>
       ELSE /\ modelCall' = GenerateText("rerank", query)
            /\ modelCalls' = modelCalls + 1
            /\ aiPc' = "generate"
            /\ UNCHANGED aiReturn
  /\ UNCHANGED <<aiConfig, reply, aiRaised>>

\* reRankResults, from the settling of generateText to its return
reRankResultsSettles(rep) ==
  /\ aiPc = "generate"
  /\ aiOp = "reRankResults"
  /\ reply' = rep
  /\ aiReturn' = reRankResultsReturn(aiResults, rep)
  /\ aiPc' = "returned"
  /\ UNCHANGED <<aiConfig, aiOp, aiQuery, aiResults, modelCall, modelCalls, aiRaised>>

\* the caller takes the value; the next call starts afresh
aiDone ==
  /\ aiPc = "returned"
  /\ aiPc' = "idle"
  /\ aiOp' = "none"
  /\ aiQuery' = ""
  /\ aiResults' = <<>>
  /\ modelCall' = None
  /\ modelCalls' = 0
  /\ reply' = None
  /\ aiReturn' = None
  /\ aiRaised' = FALSE
  /\ UNCHANGED aiConfig

\* summarizeResults, up to its return when there is nothing to do and up to
\* await generateText otherwise
summarizeResults(results, originalQuery) ==
  /\ aiPc = "idle"
  /\ aiOp' = "summarizeResults"
  /\ aiQuery' = originalQuery
  /\ aiResults' = results
  /\ IF SummarizeSkips(results)
       THEN /\ aiReturn' = NoResultsSummary
            /\ aiPc' = "returned"
            /\ UNCHANGED <<modelCall, modelCalls>>
       ELSE /\ modelCall' = GenerateText("summarize", originalQuery)
            /\ modelCalls' = modelCalls + 1
            /\ aiPc' = "generate"
            /\ UNCHANGED aiReturn
  /\ UNCHANGED <<aiConfig, reply, aiRaised>>

\* summarizeResults, from the settling of generateText to its return
summarizeResultsSettles(rep) ==
  /\ aiPc = "generate"
  /\ aiOp = "summarizeResults"
  /\ reply' = rep
  /\ aiReturn' = summarizeResultsReturn(aiResults, rep)
  /\ aiPc' = "returned"
  /\ UNCHANGED <<aiConfig, aiOp, aiQuery, aiResults, modelCall, modelCalls, aiRaised>>

\* generateText settles for enhanceQuery
enhanceQueryReplied ==
  aiPc = "generate" /\ aiOp = "enhanceQuery"
    /\ \E rep \in Replies(modelCall, EnhanceReplies) : enhanceQuerySettles(rep)

\* generateText settles for reRankResults
reRankResultsReplied ==
  aiPc = "generate" /\ aiOp = "reRankResults"
    /\ \E rep \in Replies(modelCall, RankReplies) : reRankResultsSettles(rep)

\* generateText settles for summarizeResults
summarizeResultsReplied ==
  aiPc = "generate" /\ aiOp = "summarizeResults"
    /\ \E rep \in Replies(modelCall, SummaryReplies) : summarizeResultsSettles(rep)

\* the service used on its own: the rest of the program is at rest
AINext ==
  \/ (\E q \in Queries : enhanceQuery(q)) /\ UNCHANGED otherThanAI
  \/ enhanceQueryReplied /\ UNCHANGED otherThanAI
  \/ (\E r \in ResultLists, q \in Queries : reRankResults(r, q)) /\ UNCHANGED otherThanAI
  \/ reRankResultsReplied /\ UNCHANGED otherThanAI
  \/ (\E r \in ResultLists, q \in Queries : summarizeResults(r, q)) /\ UNCHANGED otherThanAI
  \/ summarizeResultsReplied /\ UNCHANGED otherThanAI
  \/ aiDone /\ UNCHANGED otherThanAI

(***************************************************************************)
(* AIService.enhancedSearch: the four stages around searchFn.               *)
(***************************************************************************)
\* enhancedSearch at rest
PipelineInit ==
  /\ plPc = "idle"
  /\ plQuery = ""
  /\ plEnhancement = None
  /\ plFound = None
  /\ plResults = None
  /\ plReturn = None
  /\ plError = None
  /\ searchFnCalls = <<>>
  /\ plModelCalls = 0
  /\ plAllFailed = TRUE
  /\ plLog = <<>>

\* what searchFn comes to: it resolves with a result list, or it rejects
Resolved(results) == [kind |-> "resolved", results |-> results]
Rejected(msg) == [kind |-> "rejected", message |-> msg]
SearchFnOutcomes == {Resolved(r) : r \in ResultLists} \cup {Rejected("search failed")}

\* the query handed to enhancedSearch
PipelineQueries == {"notes"}

\* the argument of searchFn, always the query as given
SearchArgumentOriginal(enhancement, query) == Str(query)

\* the argument of searchFn
SearchArgument(enhancement, query) == enhancement.enhancedQuery

\* the generateText calls of the method that has returned, added to those of
\* the pipeline
CountCalls ==
  /\ plModelCalls' = plModelCalls + modelCalls
  /\ plAllFailed' = (plAllFailed /\ (reply # None => reply.kind = "failed"))

\* enhancedSearch, up to await this.enhanceQuery(query)
enhancedSearch(query) ==
  /\ plPc = "idle"
  /\ enhanceQuery(query)
  /\ plPc' = "enhance"
  /\ plQuery' = query
  /\ plLog' = <<"enhance">>
  /\ UNCHANGED <<plEnhancement, plFound, plResults, plReturn, plError, searchFnCalls,
                 plModelCalls, plAllFailed>>

\* enhanceQuery has returned: up to await searchFn(enhancement.enhancedQuery)
enhancedSearchSearches ==
  /\ plPc = "enhance"
  /\ aiPc = "returned"
  /\ plEnhancement' = aiReturn
  /\ searchFnCalls' = Append(searchFnCalls, SearchArgument(aiReturn, plQuery))
  /\ CountCalls
  /\ aiDone
  /\ plPc' = "search"
  /\ plLog' = plLog \o <<"enhanced", "search">>
  /\ UNCHANGED <<plQuery, plFound, plResults, plReturn, plError>>

\* searchFn has settled: enhancedSearch is rejected with its error, or goes
\* up to await this.reRankResults(results, query), or, with no results, up to
\* the call of summarizeResults
enhancedSearchFound(out) ==
  /\ plPc = "search"
  /\ IF out.kind = "rejected"
       THEN /\ plError' = out.message
            /\ plPc' = "raised"
            /\ plLog' = plLog
            /\ UNCHANGED <<plFound, plResults>>
            /\ UNCHANGED aiVars
       ELSE /\ plFound' = out.results
            /\ plResults' = out.results
            /\ UNCHANGED plError
            /\ IF Len(out.results) > 0
                 THEN /\ reRankResults(out.results, plQuery)
                      /\ plPc' = "rerank"
                      /\ plLog' = plLog \o <<"found", "rerank">>
                 ELSE /\ UNCHANGED aiVars
                      /\ plPc' = "summarize"
                      /\ plLog' = Append(plLog, "found")
  /\ UNCHANGED <<plQuery, plEnhancement, plReturn, searchFnCalls, plModelCalls, plAllFailed>>

\* reRankResults has returned: results = its value
enhancedSearchReRanked ==
  /\ plPc = "rerank"
  /\ aiPc = "returned"
  /\ plResults' = aiReturn
  /\ CountCalls
  /\ aiDone
  /\ plPc' = "summarize"
  /\ plLog' = Append(plLog, "reranked")
  /\ UNCHANGED <<plQuery, plEnhancement, plFound, plReturn, plError, searchFnCalls>>

\* up to await this.summarizeResults(results, query)
enhancedSearchSummarizes ==
  /\ plPc = "summarize"
  /\ summarizeResults(plResults, plQuery)
  /\ plLog' = Append(plLog, "summarize")
  /\ UNCHANGED <<plPc, plQuery, plEnhancement, plFound, plResults, plReturn, plError,
                 searchFnCalls, plModelCalls, plAllFailed>>

\* summarizeResults has returned: enhancedSearch returns
enhancedSearchReturns ==
  /\ plPc = "summarize"
  /\ aiPc = "returned"
  /\ plReturn' = [enhancement |-> plEnhancement, results |-> plResults, summary |-> aiReturn]
  /\ CountCalls
  /\ aiDone
  /\ plPc' = "returned"
  /\ plLog' = Append(plLog, "summarized")
  /\ UNCHANGED <<plQuery, plEnhancement, plFound, plResults, plError, searchFnCalls>>

\* the caller takes the record or the error; the next call starts afresh
enhancedSearchDone ==
  /\ plPc \in {"returned", "raised"}
  /\ plPc' = "idle"
  /\ plQuery' = ""
  /\ plEnhancement' = None
  /\ plFound' = None
  /\ plResults' = None
  /\ plReturn' = None
  /\ plError' = None
  /\ searchFnCalls' = <<>>
  /\ plModelCalls' = 0
  /\ plAllFailed' = TRUE
  /\ plLog' = <<>>
  /\ UNCHANGED aiVars

\* enhancedSearch, its model calls and its searchFn
PipelineNext ==
  \/ (\E q \in PipelineQueries : enhancedSearch(q)) /\ UNCHANGED otherThanPipeline
  \/ enhanceQueryReplied /\ UNCHANGED otherThanAI
  \/ enhancedSearchSearches /\ UNCHANGED otherThanPipeline
  \/ plPc = "search" /\ (\E out \in SearchFnOutcomes : enhancedSearchFound(out))
       /\ UNCHANGED otherThanPipeline
  \/ reRankResultsReplied /\ UNCHANGED otherThanAI
  \/ enhancedSearchReRanked /\ UNCHANGED otherThanPipeline
  \/ enhancedSearchSummarizes /\ UNCHANGED otherThanPipeline
  \/ summarizeResultsReplied /\ UNCHANGED otherThanAI
  \/ enhancedSearchReturns /\ UNCHANGED otherThanPipeline
  \/ enhancedSearchDone /\ UNCHANGED otherThanPipeline

(***************************************************************************)
(* AirweaveCLI (cli.ts): the loop of start, the commands, performSearch.    *)
(***************************************************************************)
UpperCase == "ABCDEFGHIJKLMNOPQRSTUVWXYZ"
LowerCase == "abcdefghijklmnopqrstuvwxyz"

\* String.prototype.toLowerCase
RECURSIVE Lower(_)
Lower(s) ==
  IF Len(s) = 0 THEN ""
  ELSE LET c == CharAt(s, 1)
           up == {i \in 1..Len(UpperCase) : CharAt(UpperCase, i) = c}
       IN (IF up = {} THEN c ELSE CharAt(LowerCase, CHOOSE i \in up : TRUE))
            \o Lower(SubSeq(s, 2, Len(s)))

\* the end of the run of characters other than white space that starts at i
RECURSIVE WordEnd(_, _)
WordEnd(s, i) == IF i <= Len(s) /\ ~IsSpace(CharAt(s, i)) THEN WordEnd(s, i + 1) ELSE i

\* command.split(/\s+/) of a trimmed, non-empty line
RECURSIVE Words(_)
Words(s) ==
  LET t == TrimLeft(s)
  IN IF Len(t) = 0 THEN <<>>
     ELSE <<SubSeq(t, 1, WordEnd(t, 1) - 1)>> \o Words(SubSeq(t, WordEnd(t, 1), Len(t)))

\* the lines the operator types
Lines ==
  {"", "   ", "notes", " roadmap for Q3 ", "/help", "/config", "/outputs", "/clear",
   "/debug", "/collections", "/cols", "/type", "/type keyword", "/type Semantic",
   "/type fuzzy", "/set", "/set api-key", "/set api-key key-2", "/SET Api-Key key-2",
   "/set apikey key 2", "/set\tapi-key  key-2 ", "/set collection-id col-2",
   "/set collection col-2",
   "/set limit 5", "/enhance", "/format", "/format text", "/format json", "/exit",
   "/quit", "/Q", "/exit now", "/search notes"}

\* what prompt resolves with: input.trim()
Inputs == {Trim(raw) : raw \in Lines}

\* Words and Lower, tabulated for the inputs
InputWords == [input \in Inputs |-> Words(input)]
LowerWord == [w \in UNION {Range(InputWords[input]) : input \in Inputs} |-> Lower(w)]

\* what the search request of the CLI comes to
CliOutcomes ==
  {FetchRejected("fetch failed"),
   BodyJson(500, Obj(<<<<"detail", Str("nope")>>>>)),
   BodyMalformed(200, ""),
   BodyJson(200, Arr(<<>>)),
   BodyJson(200, Obj(<<<<"results", Arr(<<Obj(<<<<"text", Str("a")>>>>),
                                          Obj(<<<<"id", Str("n2")>>, <<"score", Num(2)>>>>)>>)>>>>))}

\* what listCollections comes to: the list, or an error
ListOutcomes == {"listed", "failed"}

\* what saveResultsToFile comes to: the path of the file, or an error
SaveOutcomes == {"saved", "failed"}

\* provider and credentials of the CLI runs: a working service, none, and one
\* whose calls fail
CliAIConfigs ==
  {<<"google", Str("g-key"), Undef, Undef>>,
   <<"google", Undef, Str("o-key"), Str("a-key")>>,
   <<"openai", Undef, Str("o-key"), Undef>>}

\* the CLI as constructed, at its first prompt; airweaveClient was constructed
\* from appConfig
CliInit ==
  /\ running = TRUE
  /\ cliPc = "prompt"
  /\ cliLine = ""
  /\ searchType \in {"hybrid"}
  /\ outputFormat \in {"json"}
  /\ enhanceQueries = FALSE
  /\ lastQuery = Undef
  /\ lastResults = Undef
  /\ cfgApiKey = apiKey
  /\ cfgCollectionId = collectionId
  /\ cliResponse = None
  /\ savedFile = None
  /\ listRequest = None
  /\ cliLog = <<>>

\* the handling of the input is over with nothing but log written: start
\* prompts again
Handled(log) ==
  /\ cliPc' = "prompt"
  /\ cliLog' = log
  /\ cliResponse' = None
  /\ savedFile' = None
  /\ listRequest' = None
  /\ UNCHANGED <<running, searchType, outputFormat, enhanceQueries, lastQuery,
                 lastResults, cfgApiKey, cfgCollectionId>>
  /\ UNCHANGED <<clientVars, aiVars>>

\* the test of handleSetCommand that takes a key alone for a complete command
SetUsageKeyAlone(args) == Len(args) < 1

\* the test of handleSetCommand for its usage message: args.length < 2
SetUsage(args) == Len(args) < 2

\* handleSetCommand
handleSetCommand(args) ==
  IF SetUsage(args) THEN Handled(<<"usage">>)
  ELSE LET key == LowerWord[args[1]]
           value == JoinWith(Tail(args), " ")
       IN IF key \in {"api-key", "apikey"}
            THEN /\ setApiKey(value)
                 /\ cfgApiKey' = value
                 /\ cliPc' = "prompt"
                 /\ cliLog' = <<"set">>
                 /\ cliResponse' = None /\ savedFile' = None /\ listRequest' = None
                 /\ UNCHANGED <<running, searchType, outputFormat, enhanceQueries,
                                lastQuery, lastResults, cfgCollectionId>>
                 /\ UNCHANGED aiVars
          ELSE IF key \in {"collection-id", "collectionid", "collection"}
            THEN /\ setCollectionId(value)
                 /\ cfgCollectionId' = value
                 /\ cliPc' = "prompt"
                 /\ cliLog' = <<"set">>
                 /\ cliResponse' = None /\ savedFile' = None /\ listRequest' = None
                 /\ UNCHANGED <<running, searchType, outputFormat, enhanceQueries,
                                lastQuery, lastResults, cfgApiKey>>
                 /\ UNCHANGED aiVars
          ELSE Handled(<<"unknown setting">>)

\* debugConnection and listCollections of the CLI, up to the await of
\* airweaveClient.listCollections
listCollections ==
  IF ~Client_isConfigured THEN Handled(<<"not configured">>)
  ELSE /\ listRequest' = [method |-> "GET", url |-> BaseUrl \o "/collections",
                          xApiKey |-> apiKey]
       /\ cliPc' = "collections"
       /\ cliLog' = <<"list">>
       /\ cliResponse' = None
       /\ savedFile' = None
       /\ UNCHANGED <<running, searchType, outputFormat, enhanceQueries, lastQuery,
                      lastResults, cfgApiKey, cfgCollectionId>>
       /\ UNCHANGED <<clientVars, aiVars>>

\* searchService.search: the service hands the options to the search of the
\* shared airweaveClient and returns its response
searchServiceSearch(o) == search(o)

\* performSearch, up to await searchService.search
performSearch(query) ==
  /\ searchServiceSearch([query |-> query, searchType |-> Str(searchType), limit |-> Undef])
  /\ cliPc' = "search"
  /\ cliLog' = <<"search">>
  /\ cliResponse' = None
  /\ savedFile' = None
  /\ listRequest' = None
  /\ UNCHANGED <<running, searchType, outputFormat, enhanceQueries, lastQuery,
                 lastResults, cfgApiKey, cfgCollectionId>>
  /\ UNCHANGED aiVars

\* handleCommand
handleCommand(command) ==
  LET parts == InputWords[command]
      cmd == LowerWord[parts[1]]
      args == Tail(parts)
  IN CASE cmd \in {"/help", "/config", "/outputs", "/output", "/clear"} -> Handled(<<"shown">>)
       [] cmd \in {"/debug", "/collections", "/cols"} -> listCollections
       [] cmd = "/type" ->
            IF Len(args) = 0 THEN Handled(<<"usage">>)
            ELSE IF LowerWord[args[1]] \in {"hybrid", "semantic", "keyword"}
              THEN /\ searchType' = LowerWord[args[1]]
                   /\ cliPc' = "prompt"
                   /\ cliLog' = <<"type">>
                   /\ cliResponse' = None /\ savedFile' = None /\ listRequest' = None
                   /\ UNCHANGED <<running, outputFormat, enhanceQueries, lastQuery,
                                  lastResults, cfgApiKey, cfgCollectionId>>
                   /\ UNCHANGED <<clientVars, aiVars>>
              ELSE Handled(<<"invalid type">>)
       [] cmd = "/set" -> handleSetCommand(args)
       [] cmd \in {"/exit", "/quit", "/q"} ->
            /\ running' = FALSE
            /\ cliPc' = "ended"
            /\ cliLog' = <<"exit">>
            /\ cliResponse' = None /\ savedFile' = None /\ listRequest' = None
            /\ UNCHANGED <<searchType, outputFormat, enhanceQueries, lastQuery,
                           lastResults, cfgApiKey, cfgCollectionId>>
            /\ UNCHANGED <<clientVars, aiVars>>
       [] OTHER -> Handled(<<"unknown command">>)

\* the prompt resolves with a trimmed line and handleInput takes it, up to
\* its first await or to its end
handleInput(input) ==
  /\ running
  /\ cliPc = "prompt"
  /\ cliLine' = input
  /\ IF input = "" THEN Handled(<<>>)
     ELSE IF CharAt(input, 1) = "/" THEN handleCommand(input)
     ELSE performSearch(input)

\* the test of performSearch that takes no response for a failure
SearchFailedNever(res) == FALSE

\* the test of performSearch for a failed search
SearchFailed(res) == ~res.success

\* the catch of the loop of start that ends the loop
LoopCatchEnds == "ended"

\* the catch of the loop of start: the error is reported and the loop goes on
\* to its next prompt
LoopCatch == "prompt"

\* the end of performSearch: saveResultsToFile, which returns the path of the
\* file or raises, and with the file saved, the last search stored
saveResults(save, res, aiSummary, keyPoints) ==
  IF save = "failed"
    THEN /\ cliPc' = LoopCatch
         /\ cliLog' = Append(cliLog, "error")
         /\ UNCHANGED <<savedFile, lastQuery, lastResults>>
    ELSE /\ savedFile' = [query |-> cliLine, response |-> res, aiSummary |-> aiSummary,
                          keyPoints |-> keyPoints]
         /\ lastQuery' = Str(cliLine)
         /\ lastResults' = res.results
         /\ cliPc' = "prompt"
         /\ cliLog' = Append(cliLog, "saved")

\* performSearch that prompts again while summarizeResults is awaited
performSearchRespondsDetached(save) ==
  /\ cliPc = "search"
  /\ pc = "returned"
  /\ searchDone
  /\ cliResponse' = response
  /\ IF SearchFailed(response)
       THEN /\ cliPc' = "prompt"
            /\ cliLog' = Append(cliLog, "search failed")
            /\ UNCHANGED <<savedFile, lastQuery, lastResults>>
            /\ UNCHANGED aiVars
     ELSE IF Len(response.results) > 0 /\ AI_isConfigured
       THEN /\ summarizeResults(response.results, cliLine)
            /\ cliPc' = "prompt"
            /\ cliLog' = Append(cliLog, "summarize")
            /\ UNCHANGED <<savedFile, lastQuery, lastResults>>
     ELSE /\ saveResults(save, response, Undef, Undef)
          /\ UNCHANGED aiVars
  /\ UNCHANGED <<running, cliLine, searchType, outputFormat, enhanceQueries, cfgApiKey,
                 cfgCollectionId, listRequest>>

\* performSearch, from the response of the search to its return on a failed
\* search, to await aiService.summarizeResults, or to its end
performSearchResponds(save) ==
  /\ cliPc = "search"
  /\ pc = "returned"
  /\ searchDone
  /\ cliResponse' = response
  /\ IF SearchFailed(response)
       THEN /\ cliPc' = "prompt"
            /\ cliLog' = Append(cliLog, "search failed")
            /\ UNCHANGED <<savedFile, lastQuery, lastResults>>
            /\ UNCHANGED aiVars
     ELSE IF Len(response.results) > 0 /\ AI_isConfigured
       THEN /\ summarizeResults(response.results, cliLine)
            /\ cliPc' = "summarize"
            /\ cliLog' = Append(cliLog, "summarize")
            /\ UNCHANGED <<savedFile, lastQuery, lastResults>>
     ELSE /\ saveResults(save, response, Undef, Undef)
          /\ UNCHANGED aiVars
  /\ UNCHANGED <<running, cliLine, searchType, outputFormat, enhanceQueries, cfgApiKey,
                 cfgCollectionId, listRequest>>

\* performSearch, from the summary to its end
performSearchSummarized(save) ==
  /\ cliPc = "summarize"
  /\ aiPc = "returned"
  /\ aiDone
  /\ saveResults(save, cliResponse, aiReturn.summary, aiReturn.keyPoints)
  /\ UNCHANGED <<running, cliLine, searchType, outputFormat, enhanceQueries, cfgApiKey,
                 cfgCollectionId, cliResponse, listRequest>>
  /\ UNCHANGED clientVars

\* the request of listCollections settles; its error is caught where it was
\* called
listCollectionsSettles(out) ==
  /\ cliPc = "collections"
  /\ cliPc' = "prompt"
  /\ cliLog' = Append(cliLog, out)
  /\ UNCHANGED <<running, cliLine, searchType, outputFormat, enhanceQueries, lastQuery,
                 lastResults, cfgApiKey, cfgCollectionId, cliResponse, savedFile,
                 listRequest>>
  /\ UNCHANGED <<clientVars, aiVars>>

\* the CLI with the client and the AI service it calls
CliNext ==
  \/ (\E input \in Inputs : handleInput(input)) /\ UNCHANGED otherThanCLI
  \/ cliPc = "search" /\ pc = "fetch"
       /\ (\E out \in CliOutcomes : searchSettles(out)) /\ UNCHANGED otherThanClient
  \/ (\E save \in SaveOutcomes : performSearchResponds(save)) /\ UNCHANGED otherThanCLI
  \/ cliPc = "summarize" /\ summarizeResultsReplied /\ UNCHANGED otherThanAI
  \/ (\E save \in SaveOutcomes : performSearchSummarized(save)) /\ UNCHANGED otherThanCLI
  \/ (\E out \in ListOutcomes : listCollectionsSettles(out)) /\ UNCHANGED otherThanCLI

(***************************************************************************)
(* Specifications.                                                         *)
(***************************************************************************)
\* the search gateway alone, the rest of the program at rest
InitClient ==
  /\ ClientInit(KeyValues, CollectionValues)
  /\ AIInit({<<"google", Str("g-key"), Undef, Undef>>})
  /\ PipelineInit
  /\ CliInit

SpecClient == InitClient /\ [][ClientNext]_vars

\* the AI service alone
InitAI ==
  /\ ClientInit({"key-1"}, {"col-1"})
  /\ AIInit(AIConfigs)
  /\ PipelineInit
  /\ CliInit

SpecAI == InitAI /\ [][AINext]_vars

\* enhancedSearch
SpecPipeline == InitAI /\ [][PipelineNext]_vars

\* the CLI
InitCLI ==
  /\ ClientInit(KeyValues, CollectionValues)
  /\ AIInit(CliAIConfigs)
  /\ PipelineInit
  /\ CliInit

SpecCLI == InitCLI /\ [][CliNext]_vars

(***************************************************************************)
(* Properties of the search gateway.                                       *)
(***************************************************************************)
\* search has returned
Returned == pc = "returned"

\* search has returned from a request whose 2xx response carried JSON
ReturnedJson ==
  /\ pc = "returned"
  /\ outcome # None
  /\ outcome.kind = "json"
  /\ ResponseOk(outcome.status)

\* an error status arrived and its body text was read
ErrorStatusRead ==
  /\ outcome # None
  /\ outcome.kind \in {"malformed", "json"}
  /\ ~ResponseOk(outcome.status)

\* the request did not end in a 2xx response with a JSON body
RequestFailed ==
  /\ outcome # None
  /\ outcome.kind \in {"rejected", "unreadable", "malformed"}
       \/ ~ResponseOk(outcome.status)

\* a failed SearchResponse: no results and an error message
IsFailure(resp) ==
  /\ resp # None
  /\ resp.success = FALSE
  /\ resp.results = <<>>
  /\ resp.totalResults = 0
  /\ resp.error.t = "str"
  /\ resp.error.s # ""

\* C1: search never raises.  Whatever the request comes to (fetch rejected,
\* body unreadable, error status, body that is no JSON, any JSON value), search
\* returns a SearchResponse; a response with success=false has results=[],
\* totalResults=0 and an error message; every request that failed gives such a
\* response; and when an error status arrived with its body text, the message
\* contains the status code.
C1_SearchNeverRaises ==
  /\ raised = FALSE
  /\ Returned =>
       /\ response # None
       /\ response.success \in BOOLEAN
       /\ response.query = options.query
       /\ response.success = FALSE => IsFailure(response)
       /\ RequestFailed => IsFailure(response)
       /\ ErrorStatusRead => Contains(response.error.s, ToString(outcome.status))

\* search returned a failure for an HTTP 500 whose message names the status
C1_Witness ==
  /\ Returned
  /\ outcome # None
  /\ outcome.kind = "malformed"
  /\ outcome.status = 500
  /\ IsFailure(response)
  /\ Contains(response.error.s, "500")

\* C2: when the API key or the collection id is empty, search returns a failed
\* SearchResponse at once and the call issues no request.
C2_NotConfiguredNoRequest ==
  (pc # "idle" /\ (apiKey = "" \/ collectionId = "")) =>
    /\ pc = "returned"
    /\ IsFailure(response)
    /\ netCalls = 0
    /\ request = None
    /\ outcome = None

\* search returned for a client with a collection id and no API key
C2_Witness ==
  /\ Returned
  /\ apiKey = ""
  /\ collectionId # ""
  /\ IsFailure(response)
  /\ netCalls = 0

\* the fields transformResponse knows
KnownFields ==
  {"content", "text", "body", "document", "page_content", "chunk", "data",
   "id", "_id", "entity_id", "source", "source_name", "collection",
   "source_type", "type", "score", "relevance_score", "_score", "similarity",
   "metadata", "url", "title", "name", "created_at", "createdAt", "updated_at",
   "updatedAt"}

\* an element that is no record, or a record with no known field
Malformed(e) == e.t # "obj" \/ \A k \in KnownFields : ~HasKey(e, k)

\* C3 (as claimed): for every list of JSON values the body holds, search
\* succeeds and returns one result per element, and a malformed element's
\* result has the element's serialized form as content.
C3_MalformedElementKeepsBatch ==
  ReturnedJson =>
    LET raw == RawResults(outcome.data)
    IN /\ response.success
       /\ Len(response.results) = Len(raw)
       /\ \A i \in 1..Len(raw) :
            Malformed(raw[i]) => response.results[i].content = Stringify(raw[i])

\* the list the claimed extraction uses: the body itself when it is an array,
\* else its first array-valued member among results, data, items, hits,
\* documents, else nothing
ExpectedRaw(data) ==
  IF data.t = "arr" THEN data.e
  ELSE LET hits == {i \in 1..Len(WrapperKeys) : Get(data, WrapperKeys[i]).t = "arr"}
       IN IF hits = {} THEN <<>>
          ELSE Get(data, WrapperKeys[CHOOSE i \in hits : \A j \in hits : i <= j]).e

\* C4: extraction is by fixed priority, first match wins.  The response to a
\* body is the response to the bare array of the list the priority picks, and a
\* body with no such list (an unrecognized object, null) gives success=true
\* with zero results and no error.
C4_ExtractionPriority ==
  ReturnedJson =>
    /\ response = SearchResult(options, transformResponse(Arr(ExpectedRaw(outcome.data))))
    /\ (outcome.data.t # "arr" /\ ExpectedRaw(outcome.data) = <<>>) =>
         /\ response.success
         /\ response.results = <<>>
         /\ response.totalResults = 0
         /\ response.error = Undef

\* a body whose results member is no array and whose hits member is one:
\* the hits are returned
C4_Witness ==
  /\ ReturnedJson
  /\ HasKey(outcome.data, "results")
  /\ Get(outcome.data, "results").t # "arr"
  /\ Get(outcome.data, "hits").t = "arr"
  /\ response.success
  /\ Len(response.results) = 1
  /\ response.results[1].id = "a"

ContentFields == {"content", "text", "body", "document", "page_content", "chunk", "data"}

\* C5 (as claimed): every result of a search has a non-empty content, and a
\* record with none of the content fields has its serialized form as content.
C5_ContentNonEmpty ==
  (ReturnedJson /\ response.success) =>
    LET raw == RawResults(outcome.data)
    IN \A i \in 1..Len(response.results) :
         /\ response.results[i].content # ""
         /\ (\A k \in ContentFields : ~HasKey(raw[i], k)) =>
              response.results[i].content = Stringify(raw[i])

IdFields == {"id", "_id", "entity_id"}

\* the record has none of the id fields
NoIdField(e) == \A k \in IdFields : ~HasKey(e, k)

\* C6 (as claimed): a record with none of the id fields gets its zero-based
\* position as id, and when a response uses positions as ids, its ids are
\* pairwise distinct.
C6_PositionIdsUniqueInResponse ==
  (ReturnedJson /\ response.success) =>
    LET raw == RawResults(outcome.data)
        res == response.results
    IN /\ \A i \in 1..Len(res) : NoIdField(raw[i]) => res[i].id = ToString(i - 1)
       /\ (\E i \in 1..Len(res) : NoIdField(raw[i])) =>
            \A i, j \in 1..Len(res) : i # j => res[i].id # res[j].id

\* C6 (amended): a record with none of the id fields gets its zero-based
\* position as id, and the ids of the records with none of the id fields are
\* pairwise distinct.
C6_PositionIds ==
  (ReturnedJson /\ response.success) =>
    LET raw == RawResults(outcome.data)
        res == response.results
    IN /\ \A i \in 1..Len(res) : NoIdField(raw[i]) => res[i].id = ToString(i - 1)
       /\ \A i, j \in 1..Len(res) :
            (i # j /\ NoIdField(raw[i]) /\ NoIdField(raw[j])) => res[i].id # res[j].id

\* three records, the last two without an id field: their ids are "1" and "2"
C6_Witness ==
  /\ ReturnedJson
  /\ response.success
  /\ Len(response.results) = 3
  /\ NoIdField(RawResults(outcome.data)[2])
  /\ NoIdField(RawResults(outcome.data)[3])
  /\ response.results[2].id = "1"
  /\ response.results[3].id = "2"

ScoreFields == <<"score", "relevance_score", "_score", "similarity">>

\* C7 (as claimed): the score of a result is the value of the first score
\* field its record has, and 1 when it has none.
C7_ScoreFirstPresent ==
  (ReturnedJson /\ response.success) =>
    LET raw == RawResults(outcome.data)
    IN \A i \in 1..Len(response.results) :
         LET present == {k \in 1..Len(ScoreFields) : HasKey(raw[i], ScoreFields[k])}
             first == CHOOSE k \in present : \A j \in present : k <= j
         IN IF present = {} THEN response.results[i].score = Num(1)
            ELSE Get(raw[i], ScoreFields[first]).t = "num" =>
                   response.results[i].score = Get(raw[i], ScoreFields[first])

(***************************************************************************)
(* Properties of the AI service.                                           *)
(***************************************************************************)
\* reRankResults has returned
ReRanked == aiPc = "returned" /\ aiOp = "reRankResults"

\* enhanceQuery has returned
Enhanced == aiPc = "returned" /\ aiOp = "enhanceQuery"

\* generateText was called and has settled
Replied == reply # None

\* out holds the records of in, each as many times as in does
IsPermutationOf(out, in) ==
  /\ Len(out) = Len(in)
  /\ \E f \in [1..Len(in) -> 1..Len(in)] :
       /\ \A i, j \in 1..Len(in) : f[i] = f[j] => i = j
       /\ \A i \in 1..Len(in) : out[i] = in[f[i]]

\* C8: whatever generateText comes to (a permutation of the indices, some of
\* them, repeated ones, ones out of range, an empty array, text with no array
\* or one that does not parse, a failed call), reRankResults raises nothing
\* and returns its input list rearranged: no result dropped, none duplicated.
C8_ReRankPermutation ==
  /\ aiRaised = FALSE
  /\ ReRanked => IsPermutationOf(aiReturn, aiResults)

\* three results, a reply that names the second twice and an index past the
\* end: the second result comes first, the others follow
C8_Witness ==
  /\ ReRanked
  /\ Len(aiResults) = 3
  /\ reply = CallText(" [ 1 , 1 , 3 ]\n")
  /\ aiReturn = <<aiResults[2], aiResults[1], aiResults[3]>>
  /\ aiReturn # aiResults

\* the reply of the model holds no index array that parses
NoIndexArray ==
  \/ reply.kind = "failed"
  \/ ~ArrayMatch(Trim(reply.text)).found
  \/ JsonArrayThrows(ArrayMatch(Trim(reply.text)).text)

\* the index array of the reply
ReplyIndices == JsonArray(ArrayMatch(Trim(reply.text)).text)

\* order lists the zero-based indices below n: first those indices names, by
\* the place where each is named first, then the others in ascending order
IsRankOrder(order, indices, n) ==
  LET Named(i) == \E k \in 1..Len(indices) : indices[k] = i
      FirstAt(i) == CHOOSE k \in 1..Len(indices) :
                      indices[k] = i /\ \A j \in 1..(k - 1) : indices[j] # i
  IN /\ \A p, q \in 1..n : order[p] = order[q] => p = q
     /\ \A p, q \in 1..n :
          p < q =>
            IF Named(order[p])
              THEN Named(order[q]) => FirstAt(order[p]) < FirstAt(order[q])
              ELSE ~Named(order[q]) /\ order[p] < order[q]

\* C9: not configured, or with fewer than two results, reRankResults returns
\* its input and calls no model; when the call fails or the reply holds no
\* index array that parses, it returns the input order; otherwise it returns
\* the results at the in-range indices of the reply, each at its first
\* mention, and then the results never mentioned in their original order.
C9_ReRankOrder ==
  ReRanked =>
    IF ~AI_isConfigured \/ Len(aiResults) < 2
      THEN aiReturn = aiResults /\ modelCalls = 0 /\ modelCall = None /\ ~Replied
    ELSE IF NoIndexArray
      THEN aiReturn = aiResults
    ELSE \E order \in [1..Len(aiResults) -> 0..(Len(aiResults) - 1)] :
           /\ IsRankOrder(order, ReplyIndices, Len(aiResults))
           /\ aiReturn = [p \in 1..Len(aiResults) |-> aiResults[order[p] + 1]]

\* three different results and a reply inside a sentence that names the third
\* before and after an index past the end
C9_Witness ==
  /\ ReRanked
  /\ aiResults = <<Doc(0), Doc(1), Doc(2)>>
  /\ reply = CallText("Ranking: [2, 3, 2] is best")
  /\ ReplyIndices = <<2, 3, 2>>
  /\ aiReturn = <<Doc(2), Doc(0), Doc(1)>>

\* the enhancement that leaves the query as it is
IdentityEnhancement(q) ==
  [originalQuery |-> q, enhancedQuery |-> Str(q), keywords |-> Arr(<<>>),
   intent |-> Str("search")]

\* the call of the model failed, or its reply holds no object that parses
EnhancementFailed ==
  \/ reply.kind = "failed"
  \/ ~ObjectMatch(reply.text).found
  \/ JsonObjectThrows(ObjectMatch(reply.text).text)

\* C10: enhanceQuery raises nothing and the originalQuery it returns is the
\* query it was given; not configured, it calls no model; not configured, or
\* when the call or the parsing of the reply fails, it returns the identity
\* enhancement: the query itself, no keywords, intent "search".
C10_EnhanceQueryNeverRaises ==
  /\ aiRaised = FALSE
  /\ Enhanced =>
       /\ aiReturn.originalQuery = aiQuery
       /\ ~AI_isConfigured => modelCalls = 0 /\ modelCall = None /\ ~Replied
       /\ (~AI_isConfigured \/ EnhancementFailed) => aiReturn = IdentityEnhancement(aiQuery)

\* a configured service, one call, and a reply whose object does not parse
C10_Witness ==
  /\ Enhanced
  /\ AI_isConfigured
  /\ modelCalls = 1
  /\ reply.kind = "text"
  /\ ObjectMatch(reply.text).found
  /\ JsonObjectThrows(ObjectMatch(reply.text).text)
  /\ aiReturn = IdentityEnhancement(aiQuery)
  /\ aiQuery \in Queries

\* summarizeResults has returned
Summarized == aiPc = "returned" /\ aiOp = "summarizeResults"

\* summarizeResults had nothing to summarize with or nothing to summarize
NothingToSummarize == ~AI_isConfigured \/ Len(aiResults) = 0

\* the call of the model failed, or its reply holds no object that parses
SummaryFailed ==
  /\ ~NothingToSummarize
  /\ \/ reply.kind = "failed"
     \/ ~ObjectMatch(reply.text).found
     \/ JsonObjectThrows(ObjectMatch(reply.text).text)

\* the placeholder summary
PlaceholderSummary ==
  [summary |-> Str("No results to summarize."), keyPoints |-> Arr(<<>>),
   relevantTopics |-> Arr(<<>>)]

\* the summary of a failure
FailureSummary ==
  [summary |-> Str("Failed to generate summary."), keyPoints |-> Arr(<<>>),
   relevantTopics |-> Arr(<<>>)]

\* C11 as stated: summarizeResults raises nothing; not configured, with an
\* empty result list, when the model call fails and when its reply does not
\* parse, it returns the placeholder summary "No results to summarize." with
\* no key points and no topics; it calls no model when not configured or when
\* the list is empty.
C11_PlaceholderInEveryCase ==
  /\ aiRaised = FALSE
  /\ Summarized =>
       /\ NothingToSummarize => modelCalls = 0 /\ modelCall = None /\ ~Replied
       /\ (NothingToSummarize \/ SummaryFailed) => aiReturn = PlaceholderSummary

\* C11 amended: summarizeResults raises nothing; not configured or with an
\* empty result list it calls no model and returns the placeholder summary
\* "No results to summarize."; when the model call fails or its reply does not
\* parse it returns the summary "Failed to generate summary."; key points and
\* topics are empty in all four cases.
C11_SummaryFallbacks ==
  /\ aiRaised = FALSE
  /\ Summarized =>
       /\ NothingToSummarize =>
            /\ modelCalls = 0 /\ modelCall = None /\ ~Replied
            /\ aiReturn = PlaceholderSummary
       /\ SummaryFailed => aiReturn = FailureSummary

\* a configured service, results to summarize, one call, and a reply whose
\* object does not parse
C11_Witness ==
  /\ Summarized
  /\ AI_isConfigured
  /\ Len(aiResults) = 2
  /\ modelCalls = 1
  /\ reply.kind = "text"
  /\ ObjectMatch(reply.text).found
  /\ JsonObjectThrows(ObjectMatch(reply.text).text)
  /\ aiReturn = FailureSummary

\* the credential of a provider
CredentialOf(p) ==
  CASE p = "google" -> googleApiKey
    [] p = "openai" -> openaiApiKey
    [] p = "anthropic" -> anthropicApiKey

\* C15: for the selected provider, google, openai or anthropic, isConfigured
\* is true exactly when the credential of that provider is present, and every
\* model call goes through the binding of that provider, so that no call
\* depends on a credential isConfigured did not test.
C15_CallsThroughSelectedProvider ==
  /\ AI_isConfigured <=> Truthy(CredentialOf(provider))
  /\ modelCall # None => modelCall.binding = provider

(***************************************************************************)
(* Properties of enhancedSearch.                                           *)
(***************************************************************************)
\* s is the beginning of t
IsPrefix(s, t) == Len(s) <= Len(t) /\ s = SubSeq(t, 1, Len(s))

\* the stages in their order, with and without re-ranking
FullOrder ==
  <<"enhance", "enhanced", "search", "found", "rerank", "reranked", "summarize",
    "summarized">>
OrderWithoutReRank == <<"enhance", "enhanced", "search", "found", "summarize", "summarized">>

\* the outbound calls in flight: to the model, and searchFn
ModelCallInFlight == aiPc = "generate"
SearchInFlight == plPc = "search"

\* a stage has started
Started(stage) == \E i \in 1..Len(plLog) : plLog[i] = stage

\* C12: enhancedSearch runs enhance, search, re-rank, summarize in this order,
\* each stage starting after the one before has completed; searchFn is called
\* once, with enhancement.enhancedQuery; re-ranking is attempted only when the
\* search found a result; the model call and the search of a query are never
\* in flight together.
C12_StagesInOrder ==
  /\ IsPrefix(plLog, FullOrder) \/ IsPrefix(plLog, OrderWithoutReRank)
  /\ Started("rerank") => Len(plFound) > 0
  /\ Len(searchFnCalls) <= 1
  /\ Started("search") => searchFnCalls = <<plEnhancement.enhancedQuery>>
  /\ ~Started("search") => searchFnCalls = <<>>
  /\ plPc = "returned" => Len(searchFnCalls) = 1 /\ Started("summarized")
  /\ ~(ModelCallInFlight /\ SearchInFlight)
  /\ ModelCallInFlight => plPc \in {"enhance", "rerank", "summarize"} /\ aiOp =
       (CASE plPc = "enhance" -> "enhanceQuery"
          [] plPc = "rerank" -> "reRankResults"
          [] plPc = "summarize" -> "summarizeResults")

\* enhancedSearch has returned after all four stages; the model rewrote the
\* query and searchFn got the rewritten one
C12_Witness ==
  /\ plPc = "returned"
  /\ plLog = FullOrder
  /\ plModelCalls = 3
  /\ searchFnCalls = <<Str("notes weekly agenda")>>
  /\ plQuery = "notes"

\* C13: enhancedSearch is never rejected: whatever the model calls and
\* searchFn come to, also a searchFn that fails, it goes through its later
\* stages and returns a record of enhancement, results and summary.
C13_PipelineNeverRaises ==
  /\ plPc # "raised"
  /\ plError = None

\* the enhancement that leaves query as it is
SameQuery(query) == Str(query)

\* C14: with the provider not configured, or with every model call failing,
\* enhancedSearch calls searchFn with the original query and returns the list
\* searchFn resolved with, the same elements in the same order, and an
\* enhancement whose enhancedQuery is the original query.
C14_EnhancementNeverWeakens ==
  (plPc = "returned" /\ (~AI_isConfigured \/ plAllFailed)) =>
    /\ searchFnCalls = <<SameQuery(plQuery)>>
    /\ plReturn.results = plFound
    /\ plReturn.enhancement.enhancedQuery = SameQuery(plQuery)

\* a configured service whose three model calls all failed, and three results
C14_Witness ==
  /\ plPc = "returned"
  /\ AI_isConfigured
  /\ plModelCalls = 3
  /\ plAllFailed
  /\ plFound = <<Doc(0), Doc(1), Doc(2)>>
  /\ plReturn.results = <<Doc(0), Doc(1), Doc(2)>>
  /\ searchFnCalls = <<Str("notes")>>

(***************************************************************************)
(* Properties of the CLI.                                                  *)
(***************************************************************************)
\* the step takes a line at the prompt
TakesLine(line) == cliPc = "prompt" /\ cliLine' = line

\* the URL of the search of a collection
SearchUrl(collection) == "https://api.airweave.ai/collections/" \o collection \o "/search"

\* the inputs that are /set commands
SetCommands == {line \in Inputs \ {""} : Lower(Words(line)[1]) = "/set"}

\* C16: after /set api-key v or /set collection-id v the client holds v, it
\* keeps it until the next /set, and the next search sends what the client
\* holds, v as the x-api-key header or in the URL of the collection; with key
\* and collection both there the search makes its request instead of failing
\* as not configured.
C16_SetTakesEffectOnNextSearch ==
  [][/\ TakesLine("/set api-key key-2") => apiKey' = "key-2" /\ collectionId' = collectionId
     /\ TakesLine("/set collection-id col-2") =>
          collectionId' = "col-2" /\ apiKey' = apiKey
     /\ (apiKey' # apiKey \/ collectionId' # collectionId) =>
          cliPc = "prompt" /\ cliLine' \in SetCommands
     /\ (cliPc = "prompt" /\ cliPc' = "search") =>
          IF apiKey # "" /\ collectionId # ""
            THEN /\ pc' = "fetch"
                 /\ netCalls' = 1
                 /\ request'.xApiKey = apiKey
                 /\ request'.url = SearchUrl(collectionId)
            ELSE /\ pc' = "returned"
                 /\ netCalls' = 0
                 /\ ~response'.success]_vars

\* a search in flight that sends a key and a collection only /set can have
\* given
C16_Witness ==
  /\ cliPc = "search"
  /\ pc = "fetch"
  /\ request.xApiKey = "key-2"
  /\ request.url = SearchUrl("col-2")
  /\ cfgApiKey = "key-2"

\* the handling of a query as far as it has come
QueryLogs ==
  {<<"search">>, <<"search", "search failed">>, <<"search", "saved">>,
   <<"search", "error">>, <<"search", "summarize">>, <<"search", "summarize", "saved">>,
   <<"search", "summarize", "error">>}

\* the first entry of the log of an input
LogStarts(entry) == Len(cliLog) > 0 /\ cliLog[1] = entry

\* C17: one query at a time: while the loop waits at its prompt, and after it
\* has ended, no search, model call, or listing of that loop is in flight; a
\* line is handled as search, then summarize, then saving; the search and the
\* model call are never in flight together.
C17_OneQueryInFlight ==
  /\ cliPc \in {"prompt", "ended"} => pc = "idle" /\ aiPc = "idle"
  /\ pc # "idle" => cliPc = "search" /\ aiPc = "idle"
  /\ aiPc # "idle" => cliPc = "summarize" /\ pc = "idle"
  /\ ~(pc = "fetch" /\ aiPc = "generate")
  /\ LogStarts("search") => cliLog \in QueryLogs
  /\ cliPc = "search" => cliLog = <<"search">>
  /\ cliPc = "summarize" => cliLog = <<"search", "summarize">>

\* the model call of the summary in flight, the search over
C17_Witness ==
  /\ cliPc = "summarize"
  /\ aiPc = "generate"
  /\ modelCall.purpose = "summarize"
  /\ pc = "idle"
  /\ cliResponse.success
  /\ cliLog = <<"search", "summarize">>

\* the inputs that are exit commands
ExitCommands == {line \in Inputs \ {""} : Lower(Words(line)[1]) \in {"/exit", "/quit", "/q"}}

\* the line is an exit command
IsExitCommand(line) == line \in ExitCommands

\* the step ends the handling of a line with an error or a failure
EndsInError ==
  /\ cliLog' # cliLog
  /\ Len(cliLog') > 0
  /\ cliLog'[Len(cliLog')] \in {"error", "failed", "search failed"}

\* C18: an error raised while a line is handled is reported and the loop
\* prompts again; the loop ends only on /exit, /quit or /q, and after that it
\* prompts no more.
C18_NoErrorEndsTheLoop ==
  [][/\ EndsInError => cliPc' = "prompt" /\ running'
     /\ (cliPc' = "ended" /\ cliPc # "ended") => cliPc = "prompt" /\ IsExitCommand(cliLine')
     /\ (running /\ ~running') => IsExitCommand(cliLine') /\ cliPc' = "ended"
     /\ (cliPc = "prompt" /\ IsExitCommand(cliLine')) => cliPc' = "ended" /\ ~running'
     /\ cliPc = "ended" => cliPc' = "ended"]_vars

\* the results of a search could not be saved; the loop is at its prompt
C18_Witness ==
  /\ cliPc = "prompt"
  /\ running
  /\ cliLine = "notes"
  /\ cliLog = <<"search", "summarize", "error">>
  /\ savedFile = None

\* the other output format
OtherFormat(f) == IF f = "json" THEN "text" ELSE "json"

\* commands of the table of Available Commands
ReadmeCommands ==
  {"/help", "/config", "/format", "/format text", "/format json", "/type keyword",
   "/enhance", "/set api-key key-2", "/set collection-id col-2", "/clear", "/exit"}

\* C19: every command of the table of Available Commands is accepted by
\* handleCommand and has the effect the table gives it: /enhance toggles
\* enhanceQueries, /format toggles outputFormat and /format json or text sets
\* it.
C19_ReadmeCommandsAccepted ==
  [][cliPc = "prompt" =>
       /\ cliLine' \in ReadmeCommands => cliLog' # <<"unknown command">>
       /\ cliLine' = "/enhance" => enhanceQueries' = ~enhanceQueries
       /\ cliLine' = "/format" => outputFormat' = OtherFormat(outputFormat)
       /\ cliLine' = "/format text" => outputFormat' = "text"
       /\ cliLine' = "/format json" => outputFormat' = "json"
       /\ cliLine' = "/type keyword" => searchType' = "keyword"]_vars

\* C20: a failed search leaves the state of the CLI as it was: no summarize
\* call, no file saved, lastQuery and lastResults unchanged; lastQuery and
\* lastResults change only as a successful search ends, to its query and its
\* results.
C20_FailedSearchChangesNothing ==
  [][/\ (cliPc = "search" /\ cliPc' # "search" /\ ~response.success) =>
          /\ cliPc' = "prompt"
          /\ savedFile' = None
          /\ aiPc' = "idle" /\ modelCalls' = 0 /\ modelCall' = None
          /\ UNCHANGED <<running, searchType, outputFormat, enhanceQueries, lastQuery,
                         lastResults>>
     /\ (lastQuery' # lastQuery \/ lastResults' # lastResults) =>
          /\ cliPc \in {"search", "summarize"}
          /\ cliResponse'.success
          /\ lastQuery' = Str(cliLine)
          /\ lastResults' = cliResponse'.results
     /\ (cliPc' = "prompt" /\ cliResponse' # None /\ ~cliResponse'.success) =>
          savedFile' = None]_vars

\* a search that failed after one that succeeded: the last search is still the
\* one that succeeded
C20_Witness ==
  /\ cliPc = "prompt"
  /\ cliLine = "roadmap for Q3"
  /\ cliLog = <<"search", "search failed">>
  /\ ~cliResponse.success
  /\ lastQuery = Str("notes")
  /\ Len(lastResults) = 2
  /\ savedFile = None

\* the client holds what appConfig holds
ClientAgreesWithConfig == apiKey = cfgApiKey /\ collectionId = cfgCollectionId

\* the step stores a key or a collection id, in the client or in appConfig
Stores ==
  \/ apiKey' # apiKey
  \/ collectionId' # collectionId
  \/ cfgApiKey' # cfgApiKey
  \/ cfgCollectionId' # cfgCollectionId

\* C21: the client and appConfig start with the same key and collection id
\* and every step leaves them equal; key and collection id change only as a
\* /set command is taken at the prompt, to a value that is not empty, one of
\* the two at a time; so a client that is configured stays configured.
C21_ClientFollowsConfig ==
  /\ ClientAgreesWithConfig
  /\ [][/\ ClientAgreesWithConfig'
        /\ Stores => cliPc = "prompt" /\ cliLine' \in SetCommands
        /\ apiKey' # apiKey => apiKey' # "" /\ collectionId' = collectionId
        /\ collectionId' # collectionId => collectionId' # "" /\ apiKey' = apiKey
        /\ Client_isConfigured => Client_isConfigured']_vars

\* a client that started without key and collection id, configured by two
\* /set commands, the later one typed with a tab and a run of blanks
C21_Witness ==
  /\ cliPc = "prompt"
  /\ cliLine = "/set\tapi-key  key-2"
  /\ cliLog = <<"set">>
  /\ apiKey = "key-2" /\ cfgApiKey = "key-2"
  /\ collectionId = "col-2" /\ cfgCollectionId = "col-2"
  /\ Client_isConfigured

====
